---- MODULE Spec2Model ----
(***************************************************************************)
(* State-machine model of src/index.js (class IrysAutomation, main and the *)
(* SIGINT handler).  The program is one sequential async control flow; a   *)
(* value of pc names the await (or the code segment) the process is at.    *)
(* An action is the code that runs from one such point to the next.        *)
(* External services (captcha solver, faucet, chain RPC, uploader) answer  *)
(* nondeterministically.  Locals of a function are reset when the caller   *)
(* has consumed its result.                                                *)
(***************************************************************************)
EXTENDS Integers, Sequences, FiniteSets, TLC

\* ---------------------------------------------------------------- bounds
MaxLines == 2        \* lines of the private-key file
MaxGames == 2        \* largest configured general.games_per_wallet

\* ------------------------------------------------------------- constants
\* A loop test `attempts <= maxAttempts` would allow one poll more.
maxAttempts_OffByOne == 15 + 1
maxAttempts == 15    \* index.js:136

NULL == "null"
UNDEFINED == "undefined"
TxHash == "0xhash"

\* Kinds of line of the private-key file (index.js:80-91).
LineKinds == {"valid", "invalid", "blank", "comment"}

KeyFiles == UNION {[1..n -> LineKinds] : n \in 0..MaxLines}

\* The fields of config.yaml the control flow reads.  readable: loadConfig
\* finds and parses the file; game: the file has a `game:` section.
Configs ==
  [readable : BOOLEAN, faucet_enabled : BOOLEAN, game_enabled : BOOLEAN,
   games_per_wallet : 0..MaxGames, game : BOOLEAN]

\* Gas estimates the chain may answer estimateGas with.
GasEstimates == {9, 21001, 100000}

\* Answers of the solver to createTask and to getTaskResult.
CreateTaskResponses == {"taskId", "noTaskId", "error"}
PollResponses == {"readyToken", "readyNoToken", "failed", "processing", "error"}

\* Answers of the faucet endpoint: error = transport error (axios throws);
\* success = the body's success flag ("nobody": falsy body); data = the body
\* has a data object.
FaucetResponses ==
  {[error |-> TRUE, success |-> "nobody", data |-> FALSE],
   [error |-> FALSE, success |-> "nobody", data |-> FALSE],
   [error |-> FALSE, success |-> "true", data |-> TRUE],
   [error |-> FALSE, success |-> "true", data |-> FALSE],
   [error |-> FALSE, success |-> "false", data |-> TRUE],
   [error |-> FALSE, success |-> "false", data |-> FALSE],
   [error |-> FALSE, success |-> "missing", data |-> TRUE],
   [error |-> FALSE, success |-> "missing", data |-> FALSE]}
NoResponse == [error |-> FALSE, success |-> "unset", data |-> FALSE]

\* Outcomes of txResponse.wait().
Receipts == {"status1", "status0", "waitError"}

\* Configured score range and the values Math.random() is sampled at
\* (k / RandomSteps for k in 0..RandomSteps-1).
min_score == 10
max_score == 11
RandomSteps == 2

NoTx == [gasLimit |-> 0, signed |-> FALSE]

PayOrder ==
  <<"getTransactionCount", "estimateGas", "getGasPrice",
    "signTransaction", "sendTransaction", "wait">>

VARIABLES
  keyFile, config, wallets,              \* inputs and constructor results
  pc, exitCode,                          \* process position / exit code
  i, gameNum, faucetSuccesses, gameSuccesses,        \* run() locals
  attempts, polls, waits, captchaEnd,    \* getCaptchaToken
  captchaToken, faucetReqs, faucetResp, faucetClaimed,   \* claimFaucet
  paySteps, payFailedAt, gasLimit, tx, sent, receipt,    \* payForGame
  paymentTx, iterSteps, score, submitted, gameCompleted, \* playGameForWallet
  uploaderOk, priceOk, uploads, uploadOk,    \* submitGameScore
  claimCalls, iterStarted, iterFailed,   \* per-cycle history, by wallet index
  claimOk, paySent, payConfirmed,        \* per-cycle history, by wallet index
  inflight                               \* external calls and timers awaited

envVars == <<keyFile, config, wallets>>
procVars == <<pc, exitCode>>
runVars == <<i, gameNum, faucetSuccesses, gameSuccesses>>
captchaVars == <<attempts, polls, waits, captchaEnd>>
claimVars == <<captchaToken, faucetReqs, faucetResp, faucetClaimed>>
payVars == <<paySteps, payFailedAt, gasLimit, tx, sent, receipt>>
iterVars == <<paymentTx, iterSteps, score, submitted, gameCompleted>>
pubVars == <<uploaderOk, priceOk, uploads, uploadOk>>
histVars == <<claimCalls, iterStarted, iterFailed, claimOk, paySent, payConfirmed>>

vars ==
  <<envVars, procVars, runVars, captchaVars, claimVars, payVars, iterVars,
    pubVars, histVars, inflight>>

\* ------------------------------------------------------- pure functions

\* loadWallets (index.js:73-107): one wallet per valid line, in file order;
\* blank and comment lines are skipped; new ethers.Wallet throws on an
\* invalid key and the catch around the whole loop returns [].
RECURSIVE loadWalletsFrom(_, _, _)
loadWalletsFrom(lines, k, acc) ==
  IF k > Len(lines) THEN acc
  ELSE IF lines[k] \in {"blank", "comment"} THEN loadWalletsFrom(lines, k + 1, acc)
  ELSE IF lines[k] = "invalid" THEN <<>>
  ELSE loadWalletsFrom(lines, k + 1, Append(acc, k))

loadWallets(lines) == loadWalletsFrom(lines, 1, <<>>)

\* index.js:409  this.config.general.games_per_wallet || 1
gamesPerWallet == IF config.games_per_wallet = 0 THEN 1 ELSE config.games_per_wallet

runFaucet == config.faucet_enabled
runGame == config.game_enabled

\* index.js:183  if (!captchaToken)
NoToken_NeverFails(token) == FALSE
NoToken(token) == token \in {NULL, UNDEFINED}

\* index.js:193-207: the try block of claimFaucet.  A truthy success flag
\* reaches the log line 198, which reads result.data.transactionHash: without
\* a data object that read throws and the catch returns false.
claimResult_FlagOnly(resp) == ~resp.error /\ resp.success = "true"
claimResult(resp) ==
  IF resp.error THEN FALSE
  ELSE IF resp.success = "true"
       THEN (IF resp.data THEN TRUE ELSE FALSE)
       ELSE FALSE

\* index.js:230  gasLimit.mul(110).div(100)  (BigNumber: unbounded, floor)
bufferedGasLimit_DivFirst(estimate) == (estimate \div 100) * 110
bufferedGasLimit(estimate) == (estimate * 110) \div 100

\* index.js:256  receipt.status === 1
receiptOk_AnyReceipt(r) == r # "waitError"
receiptOk(r) == r = "status1"

\* index.js:352  if (!paymentTx)
paymentFailed_Ignored(p) == FALSE
paymentFailed(p) == p = NULL

\* index.js:330-337: true after upload() resolved, false from the inner
\* catch when it rejected.
submitResult_AlwaysTrue(ok) == TRUE
submitResult(ok) == ok

\* index.js:273  Math.floor(Math.random() * (maxScore - minScore + 1)) + minScore
simulatedScore(k) == ((k * (max_score - min_score + 1)) \div RandomSteps) + min_score

NoCount == [w \in 1..MaxLines |-> 0]
NoFlag == [w \in 1..MaxLines |-> FALSE]
NoOutcome == [w \in 1..MaxLines |-> "none"]

\* An external call or timer of wallet index w that the process awaits.
call(name, w) == [call |-> name, wallet |-> w]

\* `await`: the function resumes when the awaited call c has settled.  The
\* variant resumes without the call having settled (a promise not awaited).
completed_NotAwaited(c) == inflight
completed(c) == inflight \ {c}

\* ------------------------------------------------------------------ Init

Init ==
  /\ keyFile \in KeyFiles
  /\ config \in Configs
  /\ wallets = <<>>
  /\ pc = "construct"
  /\ exitCode = -1
  /\ i = 1 /\ gameNum = 1 /\ faucetSuccesses = 0 /\ gameSuccesses = 0
  /\ attempts = 0 /\ polls = 0 /\ waits = 0 /\ captchaEnd = "none"
  /\ captchaToken = NULL /\ faucetReqs = 0 /\ faucetResp = NoResponse
  /\ faucetClaimed = FALSE
  /\ paySteps = <<>> /\ payFailedAt = 0 /\ gasLimit = 0 /\ tx = NoTx /\ sent = 0
  /\ receipt = "none"
  /\ paymentTx = NULL /\ iterSteps = <<>> /\ score = 0 /\ submitted = FALSE
  /\ gameCompleted = FALSE
  /\ uploaderOk = "none" /\ priceOk = "none" /\ uploads = 0
  /\ claimCalls = NoCount /\ iterStarted = NoCount /\ iterFailed = NoFlag
  /\ claimOk = NoOutcome /\ paySent = NoCount /\ payConfirmed = NoCount
  /\ uploadOk = "none"
  /\ inflight = {}

\* Resets of the locals of a function whose result the caller has consumed.
ResetCaptcha == attempts' = 0 /\ polls' = 0 /\ waits' = 0 /\ captchaEnd' = "none"
ResetClaim ==
  /\ captchaToken' = NULL /\ faucetReqs' = 0 /\ faucetResp' = NoResponse
  /\ faucetClaimed' = FALSE
ResetPay ==
  /\ paySteps' = <<>> /\ payFailedAt' = 0 /\ gasLimit' = 0 /\ tx' = NoTx
  /\ sent' = 0 /\ receipt' = "none"
ResetPub ==
  /\ uploaderOk' = "none" /\ priceOk' = "none" /\ uploads' = 0
  /\ uploadOk' = "none"
ResetIter ==
  /\ paymentTx' = NULL /\ iterSteps' = <<>> /\ score' = 0 /\ submitted' = FALSE
  /\ gameCompleted' = FALSE

\* ------------------------------------------------- main and constructor

\* index.js:477-485 with the constructor 49-59: loadConfig rethrows, main's
\* catch exits 1; loadWallets never throws.  On success run() is entered.
main_construct ==
  /\ pc = "construct"
  /\ IF config.readable
       THEN /\ wallets' = loadWallets(keyFile)
            /\ pc' = "cycleStart" /\ UNCHANGED inflight
            /\ UNCHANGED exitCode
       ELSE /\ pc' = "exited" /\ UNCHANGED inflight
            /\ exitCode' = 1
            /\ UNCHANGED wallets
  /\ UNCHANGED <<keyFile, config, runVars, captchaVars, claimVars, payVars,
                 iterVars, pubVars, histVars>>

\* A variant of the handler below that is not installed while run() sleeps
\* between two cycles.
SIGINT_NotDuringCountdown ==
  /\ pc \notin {"construct", "exited", "countdown"}
  /\ pc' = "exited" /\ UNCHANGED inflight
  /\ exitCode' = 0
  /\ UNCHANGED <<envVars, runVars, captchaVars, claimVars, payVars, iterVars,
                 pubVars, histVars>>

\* index.js:487-491: the handler runs between two turns of the event loop,
\* never inside the synchronous constructor.
SIGINT ==
  /\ pc \notin {"construct", "exited"}
  /\ pc' = "exited" /\ UNCHANGED inflight
  /\ exitCode' = 0
  /\ UNCHANGED <<envVars, runVars, captchaVars, claimVars, payVars, iterVars,
                 pubVars, histVars>>

\* ----------------------------------------------------------------- run()

\* index.js:406-416: top of while (true): counters reset, for-loop starts.
run_cycleStart ==
  /\ pc = "cycleStart"
  /\ faucetSuccesses' = 0 /\ gameSuccesses' = 0 /\ i' = 1
  /\ claimCalls' = NoCount /\ iterStarted' = NoCount /\ iterFailed' = NoFlag
  /\ claimOk' = NoOutcome /\ paySent' = NoCount /\ payConfirmed' = NoCount
  /\ pc' = "walletLoop" /\ UNCHANGED inflight
  /\ UNCHANGED <<envVars, exitCode, gameNum, captchaVars, claimVars, payVars,
                 iterVars, pubVars>>

\* index.js:416-424 (for test, faucet branch) and 109-125 (createTask sent).
run_walletLoop ==
  /\ pc = "walletLoop"
  /\ IF i > Len(wallets)
       THEN pc' = "report" /\ UNCHANGED claimCalls /\ UNCHANGED inflight
       ELSE IF runFaucet
              THEN /\ claimCalls' = [claimCalls EXCEPT ![i] = @ + 1]
                   /\ pc' = "createTask" /\ inflight' = inflight \cup {call("createTask", i)}
              ELSE pc' = "gamesStart" /\ UNCHANGED claimCalls /\ UNCHANGED inflight
  /\ UNCHANGED <<envVars, exitCode, runVars, captchaVars, claimVars, payVars,
                 iterVars, pubVars, iterStarted, iterFailed, claimOk, paySent,
                 payConfirmed>>

\* ------------------------------------------------------ getCaptchaToken

\* index.js:122-148: the createTask answer; with a task id the loop is
\* entered and the first getTaskResult is sent.
getCaptchaToken_createTask ==
  /\ pc = "createTask"
  /\ \E r \in CreateTaskResponses :
       IF r = "taskId" /\ 0 < maxAttempts
         THEN /\ attempts' = 0 /\ polls' = polls + 1
              /\ pc' = "getTaskResult" /\ inflight' = completed(call("createTask", i)) \cup {call("getTaskResult", i)}
              /\ UNCHANGED <<waits, captchaEnd, captchaToken>>
         ELSE /\ captchaToken' = NULL
              /\ captchaEnd' = (IF r = "noTaskId" THEN "creation"
                                ELSE IF r = "error" THEN "transport"
                                ELSE "timeout")
              /\ pc' = "claimAfterCaptcha" /\ inflight' = completed(call("createTask", i))
              /\ UNCHANGED <<attempts, polls, waits>>
  /\ UNCHANGED <<envVars, exitCode, runVars, faucetReqs, faucetResp,
                 faucetClaimed, payVars, iterVars, pubVars, histVars>>

\* index.js:145-159: the getTaskResult answer.
getCaptchaToken_getTaskResult ==
  /\ pc = "getTaskResult"
  /\ \E r \in PollResponses :
       IF r = "processing"
         THEN /\ pc' = "pollWait" /\ inflight' = completed(call("getTaskResult", i)) \cup {call("pollWait", i)}
              /\ UNCHANGED <<captchaEnd, captchaToken>>
         ELSE /\ captchaToken' = (IF r = "readyToken" THEN "token"
                                  ELSE IF r = "readyNoToken" THEN UNDEFINED
                                  ELSE NULL)
              /\ captchaEnd' = (IF r \in {"readyToken", "readyNoToken"} THEN "ready"
                                ELSE IF r = "failed" THEN "failed"
                                ELSE "transport")
              /\ pc' = "claimAfterCaptcha" /\ inflight' = completed(call("getTaskResult", i))
  /\ UNCHANGED <<envVars, exitCode, runVars, attempts, polls, waits, faucetReqs,
                 faucetResp, faucetClaimed, payVars, iterVars, pubVars, histVars>>

\* index.js:159-164 and 139-148: the 2 s timer fires, attempts++, loop test,
\* next getTaskResult sent or time-out.
getCaptchaToken_wait ==
  /\ pc = "pollWait"
  /\ waits' = waits + 1
  /\ attempts' = attempts + 1
  /\ IF attempts + 1 < maxAttempts
       THEN /\ polls' = polls + 1
            /\ pc' = "getTaskResult" /\ inflight' = completed(call("pollWait", i)) \cup {call("getTaskResult", i)}
            /\ UNCHANGED <<captchaEnd, captchaToken>>
       ELSE /\ captchaToken' = NULL
            /\ captchaEnd' = "timeout"
            /\ pc' = "claimAfterCaptcha" /\ inflight' = completed(call("pollWait", i))
            /\ UNCHANGED polls
  /\ UNCHANGED <<envVars, exitCode, runVars, faucetReqs, faucetResp,
                 faucetClaimed, payVars, iterVars, pubVars, histVars>>

\* ---------------------------------------------------------- claimFaucet

\* index.js:182-194: the token test; with a token the faucet POST is sent.
claimFaucet_afterCaptcha ==
  /\ pc = "claimAfterCaptcha"
  /\ IF NoToken(captchaToken)
       THEN /\ faucetClaimed' = FALSE
            /\ pc' = "afterClaim" /\ UNCHANGED inflight
            /\ UNCHANGED faucetReqs
       ELSE /\ faucetReqs' = faucetReqs + 1
            /\ pc' = "faucetPost" /\ inflight' = inflight \cup {call("faucetPost", i)}
            /\ UNCHANGED faucetClaimed
  /\ ResetCaptcha
  /\ UNCHANGED <<envVars, exitCode, runVars, captchaToken, faucetResp, payVars,
                 iterVars, pubVars, histVars>>

\* index.js:194-207: the faucet answer.
claimFaucet_response ==
  /\ pc = "faucetPost"
  /\ \E resp \in FaucetResponses :
       /\ faucetResp' = resp
       /\ faucetClaimed' = claimResult(resp)
  /\ pc' = "afterClaim" /\ inflight' = completed(call("faucetPost", i))
  /\ UNCHANGED <<envVars, exitCode, runVars, captchaVars, captchaToken,
                 faucetReqs, payVars, iterVars, pubVars, histVars>>

\* A variant of the step below: a failed claim skips the wallet's games.
run_afterClaim_SkipGamesOnFailure ==
  /\ pc = "afterClaim"
  /\ IF faucetClaimed
       THEN /\ faucetSuccesses' = faucetSuccesses + 1 /\ pc' = "claimDelay"
            /\ inflight' = inflight \cup {call("claimDelay", i)}
            /\ UNCHANGED i
       ELSE /\ UNCHANGED <<faucetSuccesses, inflight>>
            /\ i' = i + 1 /\ pc' = "walletLoop"
  /\ claimOk' = [claimOk EXCEPT ![i] = IF faucetClaimed THEN "ok" ELSE "failed"]
  /\ ResetClaim
  /\ UNCHANGED <<envVars, exitCode, gameNum, gameSuccesses, captchaVars,
                 payVars, iterVars, pubVars, claimCalls, iterStarted, iterFailed,
                 paySent, payConfirmed>>

\* index.js:425-431
run_afterClaim ==
  /\ pc = "afterClaim"
  /\ IF faucetClaimed
       THEN faucetSuccesses' = faucetSuccesses + 1 /\ pc' = "claimDelay" /\ inflight' = inflight \cup {call("claimDelay", i)}
       ELSE UNCHANGED faucetSuccesses /\ pc' = "gamesStart" /\ UNCHANGED inflight
  /\ claimOk' = [claimOk EXCEPT ![i] = IF faucetClaimed THEN "ok" ELSE "failed"]
  /\ ResetClaim
  /\ UNCHANGED <<envVars, exitCode, i, gameNum, gameSuccesses, captchaVars,
                 payVars, iterVars, pubVars, claimCalls, iterStarted, iterFailed,
                 paySent, payConfirmed>>

\* index.js:428-430: the inter-claim timer fires.
run_claimDelay ==
  /\ pc = "claimDelay"
  /\ pc' = "gamesStart" /\ inflight' = completed(call("claimDelay", i))
  /\ UNCHANGED <<envVars, exitCode, runVars, captchaVars, claimVars, payVars,
                 iterVars, pubVars, histVars>>

\* index.js:435-438 (and 416 i++ when games are disabled)
run_gamesStart ==
  /\ pc = "gamesStart"
  /\ IF runGame
       THEN gameNum' = 1 /\ pc' = "gameLoop" /\ UNCHANGED i /\ UNCHANGED inflight
       ELSE i' = i + 1 /\ pc' = "walletLoop" /\ UNCHANGED gameNum /\ UNCHANGED inflight
  /\ UNCHANGED <<envVars, exitCode, faucetSuccesses, gameSuccesses, captchaVars,
                 claimVars, payVars, iterVars, pubVars, histVars>>

\* index.js:438-440, 345-351, 210-215: the for test; an iteration starts:
\* playGameForWallet calls payForGame, which sends getTransactionCount.
run_gameLoop ==
  /\ pc = "gameLoop"
  /\ IF gameNum <= gamesPerWallet
       THEN /\ iterStarted' = [iterStarted EXCEPT ![i] = @ + 1]
            /\ iterSteps' = <<"PAY">>
            /\ paySteps' = <<"getTransactionCount">>
            /\ pc' = "getTransactionCount" /\ inflight' = inflight \cup {call("getTransactionCount", i)}
            /\ UNCHANGED i
       ELSE /\ i' = i + 1
            /\ pc' = "walletLoop" /\ UNCHANGED inflight
            /\ UNCHANGED <<iterStarted, iterSteps, paySteps>>
  /\ UNCHANGED <<envVars, exitCode, gameNum, faucetSuccesses, gameSuccesses,
                 captchaVars, claimVars, payFailedAt, gasLimit, tx, sent, receipt,
                 paymentTx, score, submitted, gameCompleted, pubVars, claimCalls,
                 iterFailed, claimOk, paySent, payConfirmed>>

\* ----------------------------------------------------------- payForGame

\* index.js:263-266: the catch of payForGame: step k threw, null is returned.
payAbort(k) ==
  /\ payFailedAt' = k
  /\ paymentTx' = NULL
  /\ pc' = "afterPay" /\ inflight' = completed(call(pc, i))

\* index.js:215-224: the nonce answer; estimateGas is sent.
payForGame_getTransactionCount ==
  /\ pc = "getTransactionCount"
  /\ \E ok \in BOOLEAN :
       IF ok
         THEN /\ paySteps' = Append(paySteps, "estimateGas")
              /\ pc' = "estimateGas" /\ inflight' = completed(call("getTransactionCount", i)) \cup {call("estimateGas", i)}
              /\ UNCHANGED <<payFailedAt, paymentTx>>
         ELSE payAbort(1) /\ UNCHANGED paySteps
  /\ UNCHANGED <<envVars, exitCode, runVars, captchaVars, claimVars, gasLimit,
                 tx, sent, receipt, iterSteps, score, submitted, gameCompleted,
                 pubVars, histVars>>

\* A variant of the step below: a failed estimate is swallowed and the call goes on.
payForGame_estimateGas_NoAbort ==
  /\ pc = "estimateGas"
  /\ \E ok \in BOOLEAN :
       /\ paySteps' = Append(paySteps, "getGasPrice")
       /\ pc' = "getGasPrice" /\ inflight' = completed(call("estimateGas", i)) \cup {call("getGasPrice", i)}
       /\ payFailedAt' = (IF ok THEN 0 ELSE 2)
       /\ \E e \in GasEstimates : gasLimit' = e
       /\ UNCHANGED paymentTx
  /\ UNCHANGED <<envVars, exitCode, runVars, captchaVars, claimVars,
                 tx, sent, receipt, iterSteps, score, submitted, gameCompleted,
                 pubVars, histVars>>

\* index.js:224-227: the estimate answer; getGasPrice is sent.
payForGame_estimateGas ==
  /\ pc = "estimateGas"
  /\ \/ \E e \in GasEstimates :
          /\ gasLimit' = e
          /\ paySteps' = Append(paySteps, "getGasPrice")
          /\ pc' = "getGasPrice" /\ inflight' = completed(call("estimateGas", i)) \cup {call("getGasPrice", i)}
          /\ UNCHANGED <<payFailedAt, paymentTx>>
     \/ payAbort(2) /\ UNCHANGED <<paySteps, gasLimit>>
  /\ UNCHANGED <<envVars, exitCode, runVars, captchaVars, claimVars,
                 tx, sent, receipt, iterSteps, score, submitted, gameCompleted,
                 pubVars, histVars>>

\* index.js:227-249: the gas price answer; the limit is buffered, the
\* transaction is built and signTransaction is called.
payForGame_getGasPrice ==
  /\ pc = "getGasPrice"
  /\ \E ok \in BOOLEAN :
       IF ok
         THEN /\ tx' = [gasLimit |-> bufferedGasLimit(gasLimit), signed |-> FALSE]
              /\ paySteps' = Append(paySteps, "signTransaction")
              /\ pc' = "signTransaction" /\ inflight' = completed(call("getGasPrice", i)) \cup {call("signTransaction", i)}
              /\ UNCHANGED <<payFailedAt, paymentTx>>
         ELSE payAbort(3) /\ UNCHANGED <<paySteps, tx>>
  /\ UNCHANGED <<envVars, exitCode, runVars, captchaVars, claimVars, gasLimit,
                 sent, receipt, iterSteps, score, submitted, gameCompleted,
                 pubVars, histVars>>

\* index.js:249-250: the signature; sendTransaction submits the signed tx.
payForGame_signTransaction ==
  /\ pc = "signTransaction"
  /\ \E ok \in BOOLEAN :
       IF ok
         THEN /\ tx' = [tx EXCEPT !.signed = TRUE]
              /\ sent' = sent + 1
              /\ paySent' = [paySent EXCEPT ![i] = @ + 1]
              /\ paySteps' = Append(paySteps, "sendTransaction")
              /\ pc' = "sendTransaction" /\ inflight' = completed(call("signTransaction", i)) \cup {call("sendTransaction", i)}
              /\ UNCHANGED <<payFailedAt, paymentTx>>
         ELSE payAbort(4) /\ UNCHANGED <<paySteps, tx, sent, paySent>>
  /\ UNCHANGED <<envVars, exitCode, runVars, captchaVars, claimVars, gasLimit,
                 receipt, iterSteps, score, submitted, gameCompleted,
                 pubVars, claimCalls, iterStarted, iterFailed, claimOk,
                 payConfirmed>>

\* index.js:250-255: the submit answer; wait() for the receipt starts.
payForGame_sendTransaction ==
  /\ pc = "sendTransaction"
  /\ \E ok \in BOOLEAN :
       IF ok
         THEN /\ paySteps' = Append(paySteps, "wait")
              /\ pc' = "txWait" /\ inflight' = completed(call("sendTransaction", i)) \cup {call("txWait", i)}
              /\ UNCHANGED <<payFailedAt, paymentTx>>
         ELSE payAbort(5) /\ UNCHANGED paySteps
  /\ UNCHANGED <<envVars, exitCode, runVars, captchaVars, claimVars, gasLimit,
                 tx, sent, receipt, iterSteps, score, submitted, gameCompleted,
                 pubVars, histVars>>

\* index.js:255-266: the receipt (or the error of wait()).
payForGame_wait ==
  /\ pc = "txWait"
  /\ \E r \in Receipts :
       /\ receipt' = r
       /\ paymentTx' = (IF receiptOk(r) THEN TxHash ELSE NULL)
       /\ payFailedAt' = (IF r = "waitError" THEN 6 ELSE 0)
       /\ payConfirmed' = [payConfirmed EXCEPT ![i] = IF receiptOk(r) THEN @ + 1 ELSE @]
  /\ pc' = "afterPay" /\ inflight' = completed(call("txWait", i))
  /\ UNCHANGED <<envVars, exitCode, runVars, captchaVars, claimVars, paySteps,
                 gasLimit, tx, sent, iterSteps, score, submitted, gameCompleted,
                 pubVars, claimCalls, iterStarted, iterFailed, claimOk, paySent>>

\* ---------------------------------------------------- playGameForWallet

\* index.js:351-358: the payment test; on success the 5 s settle timer starts.
playGameForWallet_afterPay ==
  /\ pc = "afterPay"
  /\ IF paymentFailed(paymentTx)
       THEN /\ gameCompleted' = FALSE
            /\ iterFailed' = [iterFailed EXCEPT ![i] = TRUE]
            /\ pc' = "afterGame" /\ UNCHANGED inflight
            /\ UNCHANGED iterSteps
       ELSE /\ iterSteps' = Append(iterSteps, "SETTLE")
            /\ pc' = "settle" /\ inflight' = inflight \cup {call("settle", i)}
            /\ UNCHANGED <<gameCompleted, iterFailed>>
  /\ ResetPay
  /\ UNCHANGED <<envVars, exitCode, runVars, captchaVars, claimVars, paymentTx,
                 score, submitted, pubVars, claimCalls, iterStarted, claimOk,
                 paySent, payConfirmed>>

\* index.js:358-361 and 269-286: the settle timer fires and simulateSnakeGame
\* is called.  It reads this.config.game.min_score: without a game section
\* that read throws a TypeError inside the try of playGameForWallet, whose
\* catch (372-375) evaluates `address`, a const of the try block that is not in
\* scope there: a ReferenceError leaves playGameForWallet, rejects run(), and
\* main's catch (481-484) exits with code 1.
playGameForWallet_settle ==
  /\ pc = "settle"
  /\ iterSteps' = Append(iterSteps, "PLAY")
  /\ IF config.game
       THEN /\ \E k \in 0..(RandomSteps - 1) : score' = simulatedScore(k)
            /\ pc' = "playing" /\ inflight' = completed(call("settle", i)) \cup {call("playing", i)}
            /\ UNCHANGED <<exitCode, iterFailed>>
       ELSE /\ iterFailed' = [iterFailed EXCEPT ![i] = TRUE]
            /\ pc' = "exited" /\ inflight' = completed(call("settle", i))
            /\ exitCode' = 1
            /\ UNCHANGED score
  /\ UNCHANGED <<envVars, runVars, captchaVars, claimVars, payVars, paymentTx,
                 submitted, gameCompleted, pubVars, claimCalls, iterStarted,
                 claimOk, paySent, payConfirmed>>

\* index.js:281-285, 364, 288-294: the play timer resolves the score;
\* submitGameScore is called and initialises the uploader.
simulateSnakeGame_resolve ==
  /\ pc = "playing"
  /\ iterSteps' = Append(iterSteps, "PUBLISH")
  /\ pc' = "uploaderInit" /\ inflight' = completed(call("playing", i)) \cup {call("uploaderInit", i)}
  /\ UNCHANGED <<envVars, exitCode, runVars, captchaVars, claimVars, payVars,
                 paymentTx, score, submitted, gameCompleted, pubVars, histVars>>

\* ------------------------------------------------------ submitGameScore

\* index.js:294-326 and 339-342: the uploader is ready (getPrice is sent) or
\* its initialisation threw.
submitGameScore_withWallet ==
  /\ pc = "uploaderInit"
  /\ \E ok \in BOOLEAN :
       IF ok
         THEN uploaderOk' = "ok" /\ pc' = "getPrice" /\ UNCHANGED submitted /\ inflight' = completed(call("uploaderInit", i)) \cup {call("getPrice", i)}
         ELSE uploaderOk' = "failed" /\ submitted' = FALSE /\ pc' = "afterSubmit" /\ inflight' = completed(call("uploaderInit", i))
  /\ UNCHANGED <<envVars, exitCode, runVars, captchaVars, claimVars, payVars,
                 paymentTx, iterSteps, score, gameCompleted, priceOk, uploads,
                 uploadOk, histVars>>

\* A variant of the step below: an error of the price query is swallowed and
\* the upload is sent all the same.
submitGameScore_getPrice_NotGating ==
  /\ pc = "getPrice"
  /\ \E ok \in BOOLEAN :
       /\ priceOk' = (IF ok THEN "ok" ELSE "failed")
       /\ uploads' = uploads + 1
       /\ pc' = "upload" /\ inflight' = completed(call("getPrice", i)) \cup {call("upload", i)}
       /\ UNCHANGED submitted
  /\ UNCHANGED <<envVars, exitCode, runVars, captchaVars, claimVars, payVars,
                 paymentTx, iterSteps, score, gameCompleted, uploaderOk, uploadOk,
                 histVars>>

\* index.js:326-330 and 335-338: the price answer; upload is sent, or the
\* inner catch returns false.
submitGameScore_getPrice ==
  /\ pc = "getPrice"
  /\ \E ok \in BOOLEAN :
       IF ok
         THEN /\ priceOk' = "ok"
              /\ uploads' = uploads + 1
              /\ pc' = "upload" /\ inflight' = completed(call("getPrice", i)) \cup {call("upload", i)}
              /\ UNCHANGED submitted
         ELSE /\ priceOk' = "failed"
              /\ submitted' = FALSE
              /\ pc' = "afterSubmit" /\ inflight' = completed(call("getPrice", i))
              /\ UNCHANGED uploads
  /\ UNCHANGED <<envVars, exitCode, runVars, captchaVars, claimVars, payVars,
                 paymentTx, iterSteps, score, gameCompleted, uploaderOk, uploadOk,
                 histVars>>

\* A variant of the step below: a failed upload is sent once more.
submitGameScore_upload_Retry ==
  /\ pc = "upload"
  /\ \E ok \in BOOLEAN :
       IF ok \/ uploads >= 2
         THEN /\ uploadOk' = (IF ok THEN "ok" ELSE "failed")
              /\ submitted' = ok
              /\ pc' = "afterSubmit"
              /\ inflight' = completed(call("upload", i))
              /\ UNCHANGED uploads
         ELSE /\ uploads' = uploads + 1
              /\ UNCHANGED <<uploadOk, submitted, pc, inflight>>
  /\ UNCHANGED <<envVars, exitCode, runVars, captchaVars, claimVars, payVars,
                 paymentTx, iterSteps, score, gameCompleted, uploaderOk, priceOk,
                 histVars>>

\* index.js:330-338: the upload answer.
submitGameScore_upload ==
  /\ pc = "upload"
  /\ \E ok \in BOOLEAN :
       /\ uploadOk' = (IF ok THEN "ok" ELSE "failed")
       /\ submitted' = submitResult(ok)
  /\ pc' = "afterSubmit" /\ inflight' = completed(call("upload", i))
  /\ UNCHANGED <<envVars, exitCode, runVars, captchaVars, claimVars, payVars,
                 paymentTx, iterSteps, score, gameCompleted, uploaderOk, priceOk,
                 uploads, histVars>>

\* A variant of the step below: the iteration is reported as done whatever
\* submitGameScore returned.
playGameForWallet_afterSubmit_AlwaysDone ==
  /\ pc = "afterSubmit"
  /\ gameCompleted' = TRUE
  /\ UNCHANGED iterFailed
  /\ pc' = "afterGame" /\ UNCHANGED inflight
  /\ ResetPub
  /\ UNCHANGED <<envVars, exitCode, runVars, captchaVars, claimVars, payVars,
                 paymentTx, iterSteps, score, submitted, claimCalls, iterStarted,
                 claimOk, paySent, payConfirmed>>

\* index.js:364-371: playGameForWallet returns what submitGameScore returned.
playGameForWallet_afterSubmit ==
  /\ pc = "afterSubmit"
  /\ gameCompleted' = submitted
  /\ iterFailed' = [iterFailed EXCEPT ![i] = ~submitted]
  /\ pc' = "afterGame" /\ UNCHANGED inflight
  /\ ResetPub
  /\ UNCHANGED <<envVars, exitCode, runVars, captchaVars, claimVars, payVars,
                 paymentTx, iterSteps, score, submitted, claimCalls, iterStarted,
                 claimOk, paySent, payConfirmed>>

\* ----------------------------------------------------- run(), continued

\* A variant of the step below without the break of line 453: after a failed
\* game the loop goes on with the next game of the same wallet.
run_afterGame_NoBreak ==
  /\ pc = "afterGame"
  /\ gameSuccesses' = (IF gameCompleted THEN gameSuccesses + 1 ELSE gameSuccesses)
  /\ gameNum' = gameNum + 1
  /\ pc' = "gameLoop" /\ UNCHANGED inflight
  /\ UNCHANGED i
  /\ ResetIter
  /\ UNCHANGED <<envVars, exitCode, faucetSuccesses, captchaVars, claimVars,
                 payVars, pubVars, histVars>>

\* index.js:442-455 (and 416 i++ after break or after the last game)
run_afterGame ==
  /\ pc = "afterGame"
  /\ IF gameCompleted
       THEN /\ gameSuccesses' = gameSuccesses + 1
            /\ IF gameNum < gamesPerWallet
                 THEN pc' = "gameDelay" /\ UNCHANGED gameNum /\ inflight' = inflight \cup {call("gameDelay", i)}
                 ELSE gameNum' = gameNum + 1 /\ pc' = "gameLoop" /\ UNCHANGED inflight
            /\ UNCHANGED i
       ELSE /\ i' = i + 1
            /\ pc' = "walletLoop" /\ UNCHANGED inflight
            /\ UNCHANGED <<gameNum, gameSuccesses>>
  /\ ResetIter
  /\ UNCHANGED <<envVars, exitCode, faucetSuccesses, captchaVars, claimVars,
                 payVars, pubVars, histVars>>

\* index.js:446-448 and 438 gameNum++: the inter-game timer fires.
run_gameDelay ==
  /\ pc = "gameDelay"
  /\ gameNum' = gameNum + 1
  /\ pc' = "gameLoop" /\ inflight' = completed(call("gameDelay", i))
  /\ UNCHANGED <<envVars, exitCode, i, faucetSuccesses, gameSuccesses,
                 captchaVars, claimVars, payVars, iterVars, pubVars, histVars>>

\* index.js:459-471: the results are logged and countdown() is started.
run_report ==
  /\ pc = "report"
  /\ pc' = "countdown" /\ inflight' = inflight \cup {call("countdown", i)}
  /\ UNCHANGED <<envVars, exitCode, runVars, captchaVars, claimVars, payVars,
                 iterVars, pubVars, histVars>>

\* index.js:378-403: the interval sees now >= endTime and resolves.
countdown ==
  /\ pc = "countdown"
  /\ pc' = "cycleStart" /\ inflight' = completed(call("countdown", i))
  /\ UNCHANGED <<envVars, exitCode, runVars, captchaVars, claimVars, payVars,
                 iterVars, pubVars, histVars>>

\* The steps of the program itself (everything but the interrupt).
NextNoInterrupt ==
  \/ main_construct
  \/ run_cycleStart
  \/ run_walletLoop
  \/ getCaptchaToken_createTask
  \/ getCaptchaToken_getTaskResult
  \/ getCaptchaToken_wait
  \/ claimFaucet_afterCaptcha
  \/ claimFaucet_response
  \/ run_afterClaim
  \/ run_claimDelay
  \/ run_gamesStart
  \/ run_gameLoop
  \/ payForGame_getTransactionCount
  \/ payForGame_estimateGas
  \/ payForGame_getGasPrice
  \/ payForGame_signTransaction
  \/ payForGame_sendTransaction
  \/ payForGame_wait
  \/ playGameForWallet_afterPay
  \/ playGameForWallet_settle
  \/ simulateSnakeGame_resolve
  \/ submitGameScore_withWallet
  \/ submitGameScore_getPrice
  \/ submitGameScore_upload
  \/ playGameForWallet_afterSubmit
  \/ run_afterGame
  \/ run_gameDelay
  \/ run_report
  \/ countdown

Next ==
  \/ NextNoInterrupt
  \/ SIGINT

Spec == Init /\ [][Next]_vars

\* The program without interrupt, every external call and every timer
\* eventually answering (the event loop runs whatever continuation is ready).
FairSpec == Init /\ [][NextNoInterrupt]_vars /\ WF_vars(NextNoInterrupt)

\* ================================================================ claims

PayPcs ==
  {"getTransactionCount", "estimateGas", "getGasPrice", "signTransaction",
   "sendTransaction", "txWait"}

WalletIndexes == 1..MaxLines

\* C1: in an orchestrator iteration whose PAY step returned no transaction
\* hash, PLAY and PUBLISH are never invoked: the only step of the iteration is
\* PAY, and the iteration is reported to run() as failed.
C1_NoPlayAfterFailedPay ==
  (iterSteps # <<>> /\ paymentTx = NULL) =>
     /\ iterSteps = <<"PAY">>
     /\ pc \in PayPcs \cup {"afterPay", "afterGame", "exited"}
     /\ score = 0 /\ uploads = 0 /\ uploaderOk = "none"
     /\ (pc = "afterGame" => ~gameCompleted /\ iterFailed[i])

C1_Witness ==
  /\ pc = "afterGame" /\ paymentTx = NULL /\ iterSteps = <<"PAY">>
  /\ ~gameCompleted /\ iterFailed[i]

\* C2 (as claimed): once an iteration of a wallet has failed, no further
\* iteration is started for that wallet in the cycle; the failure comes back
\* to run(), which goes on with the next wallet of the list (when the wallet
\* is not the last one).
C2_FailFastNextWalletProceeds ==
  [][\A w \in WalletIndexes :
        /\ (iterFailed[w] /\ iterFailed'[w]) => iterStarted'[w] = iterStarted[w]
        /\ (~iterFailed[w] /\ iterFailed'[w] /\ w < Len(wallets)) => pc' = "afterGame"
        /\ (pc = "afterGame" /\ ~gameCompleted /\ i = w /\ exitCode' = exitCode)
              => (pc' = "walletLoop" /\ i' = w + 1)]_vars

\* C3 (as claimed): once the constructor has completed, the process exits
\* only on the interrupt (exit code 0): no failure of a step ends it.
C3_ExitsOnlyOnInterrupt ==
  (pc = "exited" /\ config.readable) => exitCode = 0

\* The parts of C4 that both the claim and its amendment state: at most 15
\* result polls, a completed wait between two consecutive polls, a time-out
\* only after 15 polls and 15 waits.
C4_PollBounds ==
  /\ polls <= 15
  /\ polls <= waits + 1
  /\ (pc = "getTaskResult" => polls = waits + 1)
  /\ (captchaEnd = "timeout" => polls = 15 /\ waits = 15)

\* C4 (as claimed): getCaptchaToken ends with a token (status ready) or with
\* no token for one of: creation failure, status failed, time-out, transport
\* error.
C4_OutcomesAsClaimed ==
  /\ C4_PollBounds
  /\ pc = "claimAfterCaptcha" =>
       \/ captchaEnd = "ready" /\ captchaToken = "token"
       \/ captchaEnd \in {"creation", "failed", "timeout", "transport"}
            /\ captchaToken = NULL

\* C4 (amended): as claimed, with one more way to end without a token: a
\* result of status ready that carries no token.
C4_Outcomes ==
  /\ C4_PollBounds
  /\ pc = "claimAfterCaptcha" =>
       \/ captchaEnd = "ready" /\ captchaToken \in {"token", UNDEFINED}
       \/ captchaEnd \in {"creation", "failed", "timeout", "transport"}
            /\ captchaToken = NULL
  /\ (pc = "claimAfterCaptcha" /\ captchaToken = "token") => captchaEnd = "ready"

C4_Witness ==
  /\ pc = "claimAfterCaptcha" /\ captchaEnd = "timeout" /\ captchaToken = NULL
  /\ polls = 15 /\ waits = 15

\* C5: the faucet request is sent only with a captcha token; without a token
\* no request is sent and the claim fails; at most one request per claim call
\* and at most one claim call per wallet entry per cycle.
C5_FaucetOnlyWithToken ==
  /\ faucetReqs <= 1
  /\ (faucetReqs = 1 => captchaToken = "token")
  /\ (pc = "faucetPost" => faucetReqs = 1)
  /\ (pc = "afterClaim" /\ captchaToken # "token") =>
        (faucetReqs = 0 /\ ~faucetClaimed)
  /\ \A w \in WalletIndexes : claimCalls[w] <= 1

C5_Witness ==
  /\ pc = "afterClaim" /\ captchaToken = UNDEFINED /\ faucetReqs = 0
  /\ ~faucetClaimed /\ claimCalls[i] = 1

\* C6 (as claimed): with a token, claimFaucet returns success exactly when
\* the response body carries a true success flag, whatever else it contains.
C6_SuccessIffFlag ==
  (pc = "afterClaim" /\ faucetReqs = 1) =>
     (faucetClaimed <=> (~faucetResp.error /\ faucetResp.success = "true"))

\* C7: a submitted transaction carries the gas limit floor(estimate*110/100)
\* of the estimate fetched in the same call, never below the estimate, and
\* 110000 for the estimate 100000.
C7_BufferedGasLimit ==
  (sent >= 1 \/ tx.signed) =>
     /\ tx.gasLimit = (gasLimit * 110) \div 100
     /\ tx.gasLimit >= gasLimit
     /\ (gasLimit = 100000 => tx.gasLimit = 110000)

C7_Witness ==
  /\ pc = "txWait" /\ sent = 1 /\ tx.signed
  /\ gasLimit = 100000 /\ tx.gasLimit = 110000

\* C8: the steps of payForGame run in the order nonce, estimate, gas price,
\* sign, submit, wait; a failed step ends the call with failure and no later
\* step; a transaction is signed and submitted only after the three reads
\* succeeded, and at most once per call.
C8_PayStepOrder ==
  /\ Len(paySteps) <= Len(PayOrder)
  /\ \A k \in 1..Len(paySteps) : paySteps[k] = PayOrder[k]
  /\ sent <= 1
  /\ (tx.signed <=> sent = 1)
  /\ (sent = 1 => Len(paySteps) >= 5 /\ gasLimit \in GasEstimates)
  /\ (payFailedAt > 0 =>
        /\ pc \in {"afterPay", "exited"}
        /\ paymentTx = NULL
        /\ Len(paySteps) = payFailedAt)
  /\ (pc \in PayPcs => PayOrder[Len(paySteps)] =
                         (IF pc = "txWait" THEN "wait" ELSE pc))

C8_Witness ==
  /\ pc = "afterPay" /\ payFailedAt = 2 /\ sent = 0 /\ paymentTx = NULL
  /\ paySteps = <<"getTransactionCount", "estimateGas">>

\* C9: payForGame returns the hash exactly when the receipt of the submitted
\* transaction has the success status; any other status, or an error of the
\* wait, returns failure although the transaction was submitted.
C9_HashIffReceiptOk ==
  /\ (pc = "afterPay" => (paymentTx = TxHash <=> receipt = "status1"))
  /\ (receipt \in {"status0", "waitError"} => paymentTx = NULL /\ sent = 1)
  /\ (receipt = "status1" => sent = 1)

C9_Witness ==
  pc = "afterPay" /\ receipt = "status0" /\ sent = 1 /\ paymentTx = NULL

\* C10 (as claimed): once the uploader is initialised the upload is issued,
\* whether the price query succeeded or failed.
C10_UploadNotGatedByPrice ==
  (pc = "afterSubmit" /\ uploaderOk = "ok") => uploads = 1

\* C10 (amended): the price is informational, but the query gates the upload
\* by its errors: the upload is issued exactly when the uploader was
\* initialised and the price query returned; a price query that fails ends
\* publish with failure and without an upload.
C10_UploadGatedByPriceError ==
  /\ (uploads >= 1 => uploaderOk = "ok" /\ priceOk = "ok" /\ uploads = 1)
  /\ (pc = "afterSubmit" => (uploads = 1 <=> (uploaderOk = "ok" /\ priceOk = "ok")))
  /\ (priceOk = "failed" => uploads = 0 /\ ~submitted)

C10_Witness ==
  /\ pc = "afterSubmit" /\ uploaderOk = "ok" /\ priceOk = "failed"
  /\ uploads = 0 /\ ~submitted

\* ------------------------------------------------------ claims C11..C20

Range(f) == {f[k] : k \in DOMAIN f}

AwaitPcs ==
  {"createTask", "getTaskResult", "pollWait", "faucetPost", "claimDelay",
   "getTransactionCount", "estimateGas", "getGasPrice", "signTransaction",
   "sendTransaction", "txWait", "settle", "playing", "uploaderInit", "getPrice",
   "upload", "gameDelay", "countdown"}

IterOrder == <<"PAY", "SETTLE", "PLAY", "PUBLISH">>

\* C11: submitGameScore returns success exactly when the upload call
\* completed without error; an error of the uploader initialisation, of the
\* price query or of the upload gives failure, and none of them leaves
\* submitGameScore (the process does not end with an error in PUBLISH).
C11_SuccessIffUploadOk ==
  /\ (pc = "afterSubmit" => (submitted <=> uploadOk = "ok"))
  /\ ((pc = "afterSubmit" /\ "failed" \in {uploaderOk, priceOk, uploadOk})
        => ~submitted)
  /\ (uploadOk # "none" => uploads = 1)
  /\ (("PUBLISH" \in Range(iterSteps) /\ pc = "exited") => exitCode = 0)

C11_Witness ==
  pc = "afterSubmit" /\ uploadOk = "failed" /\ uploads = 1 /\ ~submitted

\* C12 (as claimed): a session whose PAY and PLAY succeeded issues exactly
\* one upload call, never zero.
C12_ExactlyOneUpload ==
  pc = "afterSubmit" => uploads = 1

\* C12 (amended): such a session calls submitGameScore exactly once and
\* issues at most one upload call: exactly one when the uploader
\* initialisation and the price query succeeded, none otherwise.
C12_AtMostOneUpload ==
  /\ uploads <= 1
  /\ Cardinality({k \in DOMAIN iterSteps : iterSteps[k] = "PUBLISH"}) <= 1
  /\ pc = "afterSubmit" =>
       /\ paymentTx = TxHash /\ score \in min_score..max_score
       /\ "PUBLISH" \in Range(iterSteps)
       /\ (uploads = 0 <=> "failed" \in {uploaderOk, priceOk})

C12_Witness ==
  /\ pc = "afterSubmit" /\ paymentTx = TxHash /\ uploaderOk = "failed"
  /\ uploads = 0

\* The valid lines of a key file, in file order.
RECURSIVE validLinesFrom(_, _)
validLinesFrom(lines, k) ==
  IF k > Len(lines) THEN <<>>
  ELSE IF lines[k] = "valid" THEN <<k>> \o validLinesFrom(lines, k + 1)
  ELSE validLinesFrom(lines, k + 1)

\* C13 (as claimed): the loaded wallets are exactly the valid lines of the
\* key file, in file order, whatever invalid lines stand before or after.
C13_OneWalletPerValidLine ==
  (pc # "construct" /\ config.readable) => wallets = validLinesFrom(keyFile, 1)

\* C14 (as claimed): in a cycle no wallet has more iterations started than
\* the configured general.games_per_wallet, 0 included.
C14_AtMostConfiguredGames ==
  \A w \in WalletIndexes : iterStarted[w] <= config.games_per_wallet

\* C15 (as claimed): with every call and timer answering and no interrupt,
\* once the constructor has completed the scheduler starts cycles again and
\* again.
C15_CyclesRecur ==
  config.readable => []<>(pc = "cycleStart")

\* C16: at most one external call or timer is outstanding, it belongs to the
\* wallet being processed, and between two awaits nothing is outstanding.
C16_OneCallOutstanding ==
  /\ Cardinality(inflight) <= 1
  /\ \A c \in inflight : c.wallet = i
  /\ (pc \in AwaitPcs => inflight = {call(pc, i)})
  /\ (pc \notin AwaitPcs \cup {"exited"} => inflight = {})

C16_Witness ==
  pc = "upload" /\ i = 2 /\ inflight = {call("upload", 2)}

\* C17: the interrupt can be taken in every state of the running process; it
\* ends the process with exit code 0 and changes nothing else (nothing is
\* rolled back, nothing is started); an ended process takes no further step.
C17_InterruptExits ==
  [][/\ pc # "exited"
     /\ (pc # "construct" => ENABLED SIGINT)
     /\ (exitCode' = 0 =>
           /\ pc' = "exited"
           /\ UNCHANGED <<envVars, runVars, captchaVars, claimVars, payVars,
                          iterVars, pubVars, histVars, inflight>>)]_vars

C17_Witness ==
  /\ pc = "exited" /\ exitCode = 0 /\ sent = 1 /\ tx.signed
  /\ inflight = {call("txWait", i)}

\* C18: an iteration runs PAY, settle delay, PLAY, PUBLISH in this order; it
\* goes past PAY only with a transaction hash, starts PUBLISH only with the
\* score PLAY yielded, and is reported done exactly when PAY returned a hash
\* and PUBLISH returned success.
C18_IterationOrder ==
  /\ Len(iterSteps) <= Len(IterOrder)
  /\ \A k \in 1..Len(iterSteps) : iterSteps[k] = IterOrder[k]
  /\ (Len(iterSteps) >= 2 => paymentTx = TxHash)
  /\ ("PUBLISH" \in Range(iterSteps) => score \in min_score..max_score)
  /\ (pc = "settle" => iterSteps = <<"PAY", "SETTLE">>)
  /\ (pc = "playing" => iterSteps = <<"PAY", "SETTLE", "PLAY">>)
  /\ (pc = "afterGame" => (gameCompleted <=> (paymentTx = TxHash /\ submitted)))

C18_Witness ==
  pc = "afterGame" /\ gameCompleted /\ iterSteps = IterOrder /\ submitted

\* C19: within a cycle, a payment is submitted for a wallet entry only when
\* every payment submitted before for that entry in the cycle was confirmed
\* with the success status: at most one submitted payment is unconfirmed.
C19_PayOnlyAfterConfirmed ==
  \A w \in WalletIndexes :
     /\ payConfirmed[w] <= paySent[w]
     /\ paySent[w] <= payConfirmed[w] + 1
     /\ (paySent[w] > payConfirmed[w] =>
           \/ w = i /\ pc \in {"sendTransaction", "txWait", "afterPay", "afterGame", "exited"}
           \/ iterFailed[w])

C19_Witness ==
  /\ i = 2 /\ paySent[1] = 1 /\ payConfirmed[1] = 0 /\ iterFailed[1]
  /\ config.games_per_wallet = 2 /\ iterStarted[1] = 1 /\ pc = "txWait"

\* C20: with both features enabled, every wallet gets its game iterations
\* after its claim, whether the claim succeeded or failed; the success
\* counter counts the successful claims only, and the inter-claim delay is
\* taken only after a successful claim.
C20_GamesWhateverTheClaim ==
  /\ faucetSuccesses = Cardinality({w \in WalletIndexes : claimOk[w] = "ok"})
  /\ (pc = "claimDelay" => claimOk[i] = "ok")
  /\ (runFaucet /\ runGame) =>
       \A w \in 1..Len(wallets) :
          /\ (iterStarted[w] >= 1 => claimOk[w] # "none")
          /\ (w < i => claimOk[w] # "none" /\ iterStarted[w] >= 1)

C20_Witness ==
  /\ runFaucet /\ runGame /\ claimOk[1] = "failed" /\ iterStarted[1] = 1
  /\ i = 1 /\ pc = "getTransactionCount" /\ faucetSuccesses = 0

====
